---- MODULE Spec2Model ----
(***************************************************************************)
(* Consumable Macros (scripts/consumable-macros.js): macro dispatch on     *)
(* consumption of an item, with the duplicate suppressor, the pending      *)
(* deletion table and the hook handlers, each handler split at its awaits. *)
(*                                                                         *)
(* Time is counted in milliseconds and advances in steps of TickMs.  A     *)
(* setTimeout callback runs at the instant its delay has elapsed, before   *)
(* any other step taken at that instant; synchronous code takes no time,   *)
(* an awaited lookup or macro execution takes any amount of time.          *)
(***************************************************************************)
EXTENDS Integers, Sequences, FiniteSets, TLC

\* ---------------------------------------------------------------- bounds
MaxNotifs == 2
MaxTime == 1000
MaxEdits == 1
MaxLen == 2

\* ------------------------------------------------------ program constants
DedupWindow == 500
TickMs == DedupWindow \div 2

Undefined == 0 - 1
NoRef == <<>>
NoItem == "none"
NoActor == "none"

\* game.user.id of this client, and the users a notification can come from
Me == "u1"
Users == {"u1", "u2"}

\* ------------------------------------------------------------ host world
Potion == <<"Healing", " ", "Potion">>
Sword == <<"Sword">>
M1 == <<"Macro.m1">>
M2 == <<"Compendium.pack.Macro.m2">>
MacroUuids == {M1, M2}

Elixir == <<"Elixir">>

\* i1, i3, i4: owned by actor a1; i2: a world item (game.items); c1: a
\* compendium entry.  ItemOrder is the order in which a collection is
\* searched.  i4 is a second potion that only some worlds hold.
ItemIds == {"i1", "i2", "i3", "c1", "i4"}
ItemOrder == <<"i4", "i1", "i2", "i3", "c1">>
StartItems == {"i1", "i2", "i3", "c1"}
ItemName == [i \in ItemIds |->
               IF i = "i3" THEN Sword ELSE IF i = "c1" THEN Elixir ELSE Potion]
ItemType == [i \in ItemIds |-> IF i = "i3" THEN "weapon" ELSE "consumable"]
ItemHome == [i \in ItemIds |->
               IF i = "i2" THEN "world" ELSE IF i = "c1" THEN "pack" ELSE "a1"]
ActorIds == {"a1"}
\* item.parent
ItemParent == [i \in ItemIds |->
                 IF ItemHome[i] \in ActorIds THEN ItemHome[i] ELSE NoActor]
\* item.uuid, as the parts between the dots
ItemUuid == [i \in ItemIds |->
               IF ItemHome[i] = "world" THEN <<"Item", i>>
               ELSE IF ItemHome[i] = "pack" THEN <<"Compendium", "pack", "Item", i>>
               ELSE <<"Actor", ItemHome[i], "Item", i>>]
Quantities == {Undefined, 0, 1, 2}
\* the actor ChatMessage.getSpeakerActor derives from the prevailing speaker
SpeakerActor == "speaker"

VARIABLES qty, flag, inv, macros, edits,
          recentlyExecuted, timers, consumedItems,
          h, last, preDeleted, now

vars == <<qty, flag, inv, macros, edits,
          recentlyExecuted, timers, consumedItems, h, last, preDeleted, now>>
hostVars == <<qty, flag, inv, macros, edits>>
\* history kept for the properties: the last sheet operation, and what each
\* item looked like at its latest pre-delete notification
histVars == <<last, preDeleted>>
dedupVars == <<recentlyExecuted, timers>>

\* ---------------------------------------------------- duplicate suppressor
\* variant: the key is the item name alone
KeyOfName(itemName, macroUuid) == itemName
\* const key = `${itemName}:${macroUuid}`
Key(itemName, macroUuid) == itemName \o <<":">> \o macroUuid

\* variant: the suppressor never rejects
ShouldExecuteMacroAlways(set, itemName, macroUuid) == TRUE

\* the value shouldExecuteMacro returns
ShouldExecuteMacro(set, itemName, macroUuid) ==
  Key(itemName, macroUuid) \notin set

\* variant: the key is never added
RegisterKeyNever(set, itemName, macroUuid) == set

\* recentlyExecuted after the call
RegisterKey(set, itemName, macroUuid) ==
  IF Key(itemName, macroUuid) \in set THEN set
  ELSE set \cup {Key(itemName, macroUuid)}

\* variant: a rejected duplicate restarts the window
ScheduleExpiryRestarts(tms, set, itemName, macroUuid) ==
  {tm \in tms : tm.key # Key(itemName, macroUuid)}
    \cup {[key |-> Key(itemName, macroUuid), rem |-> DedupWindow]}

\* variant: every call starts a timer, also a rejected one
ScheduleExpiryAlways(tms, set, itemName, macroUuid) ==
  tms \cup {[key |-> Key(itemName, macroUuid), rem |-> DedupWindow]}

\* the pending setTimeout callbacks after the call
ScheduleExpiry(tms, set, itemName, macroUuid) ==
  IF Key(itemName, macroUuid) \in set THEN tms
  ELSE tms \cup {[key |-> Key(itemName, macroUuid), rem |-> DedupWindow]}

TimerDue == \E tm \in timers : tm.rem <= 0

\* setTimeout(() => recentlyExecuted.delete(key), 500) fires
ExpireKey(tm) ==
  /\ tm \in timers
  /\ tm.rem <= 0
  /\ recentlyExecuted' = recentlyExecuted \ {tm.key}
  /\ timers' = timers \ {tm}
  /\ UNCHANGED <<hostVars, consumedItems, h, histVars, now>>

\* the clock advances; no timer is left behind its due time
Tick ==
  /\ ~TimerDue
  /\ Len(h) > 0
  /\ now' = IF now + TickMs > MaxTime THEN MaxTime ELSE now + TickMs
  /\ timers' = {[key |-> tm.key, rem |-> tm.rem - TickMs] : tm \in timers}
  /\ UNCHANGED <<hostVars, recentlyExecuted, consumedItems, h, histVars>>

\* a handler step can be taken: the clock is inside the modelled horizon and
\* every due timer callback has run
CanStep == now < MaxTime /\ ~TimerDue


\* ------------------------------------------------------- handler instances
\* One record per notification handled.  pc is the await the handler is
\* suspended at; the other fields are its local variables and a history of
\* what it did (at, callAt, ret, live, missing, ran, ctx, ui, out).
NoMsg == [item |-> NoItem, ctx |-> NoRef, origin |-> NoRef, flavor |-> <<>>,
          content |-> <<>>, originName |-> <<>>, sourceId |-> NoRef]
NoCtx == [actor |-> NoActor, item |-> NoItem, macro |-> NoRef, keys |-> {}]

\* variant: the callback answers false to the dispatcher
CallbackCancels(completion) == "false"
\* every hook callback is declared async: whatever its body does (return,
\* suspend at an await, raise), the dispatcher is handed a promise
AsyncCallback(completion) == "promise"
\* the dispatcher abandons the operation only on a callback answering false
Cancels(returned) == returned = "false"

Handler(path, userId, item, pc, out) ==
  [path |-> path, user |-> userId, item |-> item, pc |-> pc, out |-> out,
   name |-> IF item = NoItem THEN <<>> ELSE ItemName[item],
   macroUuid |-> NoRef, actor |-> NoActor, msg |-> NoMsg, itemName |-> <<>>,
   newQ |-> Undefined, oldQ |-> Undefined,
   at |-> now, callAt |-> Undefined, ret |-> "none", live |-> FALSE,
   missing |-> FALSE, ran |-> FALSE, ctx |-> NoCtx, ui |-> 0,
   returned |-> AsyncCallback(IF pc = "done" THEN "undefined" ELSE "pending")]

CanNotify == CanStep /\ Len(h) < MaxNotifs

\* a registration of this key that history says has not yet run out
LiveByHistory(key) ==
  \E j \in 1..Len(h) :
    /\ h[j].ret = "true"
    /\ Key(h[j].name, h[j].macroUuid) = key
    /\ now < h[j].callAt + DedupWindow

\* ----------------------------------------------- preUpdateItem (sync part)
\* !change.system?.quantity
Falsy(q) == q = Undefined \/ q = 0
\* variant: newQuantity > oldQuantity
JsGT(a, b) == a # Undefined /\ b # Undefined /\ a > b
\* newQuantity >= oldQuantity, as JavaScript compares with undefined
JsGE(a, b) == a # Undefined /\ b # Undefined /\ a >= b

\* why the pre-update handler returns before its first await, or "" if not
PreUpdateReturns(userId, i, newQ, oldQ, macroUuid) ==
  IF userId # Me THEN "wrongUser"
  ELSE IF ItemType[i] # "consumable" THEN "notConsumable"
  ELSE IF Falsy(newQ) THEN "noQuantity"
  ELSE IF JsGE(newQ, oldQ) THEN "notDecreasing"
  ELSE IF macroUuid = NoRef THEN "noFlag"
  ELSE ""

PreUpdateItem(i, newQ, userId) ==
  /\ CanNotify
  /\ i \in inv
  /\ LET why == PreUpdateReturns(userId, i, newQ, qty[i], flag[i])
         base == [Handler("preUpdateItem", userId, i, "done", why)
                    EXCEPT !.newQ = newQ, !.oldQ = qty[i]]
     IN h' = Append(h, IF why # "" THEN base
                       ELSE [base EXCEPT !.pc = "awaitMacro", !.out = "pending",
                                         !.macroUuid = flag[i]])
  /\ UNCHANGED <<hostVars, dedupVars, consumedItems, histVars, now>>

\* ------------------------------------------------ preDeleteItem, deleteItem
NoSnap == [name |-> <<>>, macroUuid |-> NoRef, actor |-> NoActor]
NoPre == [user |-> "none", flag |-> NoRef, n |-> 0, returned |-> "none"]

\* variant: the pre-delete handler stores a snapshot without testing the flag
PreDeleteStoresUnflagged(userId, i, macroUuid) ==
  userId = Me /\ ItemType[i] = "consumable"
\* the pre-delete handler gets as far as consumedItems.set
PreDeleteStores(userId, i, macroUuid) ==
  userId = Me /\ ItemType[i] = "consumable" /\ macroUuid # NoRef

\* runs to completion: the handler has no await
PreDeleteItem(i, userId) ==
  /\ CanStep
  /\ i \in inv
  /\ consumedItems' =
       IF PreDeleteStores(userId, i, flag[i])
       THEN [consumedItems EXCEPT ![i] = [name |-> ItemName[i],
                                          macroUuid |-> flag[i],
                                          actor |-> ItemParent[i]]]
       ELSE consumedItems
  /\ preDeleted' = [preDeleted EXCEPT ![i] = [user |-> userId, flag |-> flag[i],
                                               n |-> Len(h),
                                               returned |-> AsyncCallback("undefined")]]
  /\ UNCHANGED <<hostVars, dedupVars, h, last, now>>

\* variant: the post-delete handler reads the item's flag instead of the
\* snapshot's macro reference
DeleteItemReadsFlag(i, userId) ==
  /\ CanStep /\ Len(h) < MaxNotifs
  /\ LET stored == consumedItems[i]
         base == Handler("deleteItem", userId, i, "done", "noStored")
     IN /\ h' = Append(h, IF stored = NoSnap THEN base
                          ELSE [base EXCEPT !.pc = "awaitMacro", !.out = "pending",
                                            !.name = stored.name,
                                            !.macroUuid = flag[i],
                                            !.actor = stored.actor])
        /\ consumedItems' = [consumedItems EXCEPT ![i] = NoSnap]
  /\ inv' = inv \ {i}
  /\ UNCHANGED <<qty, flag, macros, edits, dedupVars, histVars, now>>

\* variant: the post-delete handler leaves the snapshot in the table
DeleteItemKeepsEntry(i, userId) ==
  /\ CanStep /\ Len(h) < MaxNotifs
  /\ LET stored == consumedItems[i]
         base == Handler("deleteItem", userId, i, "done", "noStored")
     IN h' = Append(h, IF stored = NoSnap THEN base
                       ELSE [base EXCEPT !.pc = "awaitMacro", !.out = "pending",
                                         !.name = stored.name,
                                         !.macroUuid = stored.macroUuid,
                                         !.actor = stored.actor])
  /\ inv' = inv \ {i}
  /\ UNCHANGED <<qty, flag, macros, edits, dedupVars, consumedItems, histVars, now>>

\* the host has removed the item; the handler reads and removes the snapshot
DeleteItem(i, userId) ==
  /\ CanNotify
  /\ LET stored == consumedItems[i]
         base == Handler("deleteItem", userId, i, "done", "noStored")
     IN /\ h' = Append(h, IF stored = NoSnap THEN base
                          ELSE [base EXCEPT !.pc = "awaitMacro", !.out = "pending",
                                            !.name = stored.name,
                                            !.macroUuid = stored.macroUuid,
                                            !.actor = stored.actor])
        /\ consumedItems' = [consumedItems EXCEPT ![i] = NoSnap]
  /\ inv' = inv \ {i}
  /\ UNCHANGED <<qty, flag, macros, edits, dedupVars, histVars, now>>

\* ------------------------------------------ pf2e.useItem, pf2e.consumeItem
UseItem(i) ==
  /\ CanNotify
  /\ LET why == IF ItemType[i] # "consumable" THEN "notConsumable"
                ELSE IF flag[i] = NoRef THEN "noFlag" ELSE ""
         base == Handler("pf2e.useItem", Me, i, "done", why)
     IN h' = Append(h, IF why # "" THEN base
                       ELSE [base EXCEPT !.pc = "awaitMacro", !.out = "pending",
                                         !.macroUuid = flag[i]])
  /\ UNCHANGED <<hostVars, dedupVars, consumedItems, histVars, now>>

ConsumeItem(i, actor) ==
  /\ CanNotify
  /\ LET why == IF flag[i] = NoRef THEN "noFlag" ELSE ""
         base == [Handler("pf2e.consumeItem", Me, i, "done", why)
                    EXCEPT !.actor = actor]
     IN h' = Append(h, IF why # "" THEN base
                       ELSE [base EXCEPT !.pc = "awaitMacro", !.out = "pending",
                                         !.macroUuid = flag[i]])
  /\ UNCHANGED <<hostVars, dedupVars, consumedItems, histVars, now>>


\* -------------------------------------------------- createChatMessage: text
\* A text is a sequence of tokens: words, white space and whole HTML tags.
TagItemId == "<span data-item-id=\"tmp\">"
TagItemName == "<span data-item-name=\"Elixir\">"
Tags == {"<p>", "</p>", "</span>", TagItemId, TagItemName}
IsTag(t) == t \in Tags
IsSpace(t) == t \in {" ", "\n"}
\* the tag carries data-item-id="..."
HasItemId(t) == t = TagItemId
\* the value of the tag's data-item-name="..." attribute, <<>> if it has none
ItemNameAttr(t) == IF t = TagItemName THEN Elixir ELSE <<>>
Lower(t) == IF t \in {"Uses", "USES", "uses"} THEN "uses" ELSE t

\* message.content.replace(/<[^>]*>/g, '')
StripTags(txt) == SelectSeq(txt, LAMBDA t : ~IsTag(t))

RECURSIVE TrimLeft(_)
TrimLeft(txt) ==
  IF txt # <<>> /\ IsSpace(Head(txt)) THEN TrimLeft(Tail(txt)) ELSE txt
RECURSIVE TrimRight(_)
TrimRight(txt) ==
  IF txt # <<>> /\ IsSpace(txt[Len(txt)])
  THEN TrimRight(SubSeq(txt, 1, Len(txt) - 1)) ELSE txt
Trim(txt) == TrimRight(TrimLeft(txt))

\* textContent.match(/^Uses\s+(.+)$/i): the capture, trimmed; <<>> if no match
UsesMatch(txt) ==
  IF Len(txt) >= 3 /\ Lower(txt[1]) = "uses" /\ IsSpace(txt[2])
     /\ \A p \in 3..Len(txt) : txt[p] # "\n" \/ \A q \in 2..p : IsSpace(txt[q])
  THEN Trim(Tail(Tail(txt)))
  ELSE <<>>

\* message.flavor.match(/data-item-id="[^"]*"[^>]*>([^<]+)</): the capture
FlavorMatch(txt) ==
  LET Hits == {p \in 1..Len(txt) :
                 /\ HasItemId(txt[p])
                 /\ \E q \in (p + 2)..Len(txt) :
                      IsTag(txt[q]) /\ \A r \in (p + 1)..(q - 1) : ~IsTag(txt[r])}
  IN IF Hits = {} THEN <<>>
     ELSE LET p == CHOOSE x \in Hits : \A y \in Hits : x <= y
              q == CHOOSE x \in (p + 2)..Len(txt) :
                     IsTag(txt[x]) /\ \A r \in (p + 1)..(x - 1) : ~IsTag(txt[r])
          IN SubSeq(txt, p + 1, q - 1)

\* message.content.match(/data-item-name="([^"]+)"/): the capture
ContentAttrMatch(txt) ==
  LET Hits == {p \in 1..Len(txt) : ItemNameAttr(txt[p]) # <<>>}
  IN IF Hits = {} THEN <<>>
     ELSE ItemNameAttr(txt[CHOOSE x \in Hits : \A y \in Hits : x <= y])

\* variant: the name in the origin metadata is preferred to the texts
ExtractNameOriginFirst(m) ==
  IF m.originName # <<>> THEN m.originName
  ELSE IF FlavorMatch(m.flavor) # <<>> THEN FlavorMatch(m.flavor)
  ELSE IF UsesMatch(Trim(StripTags(m.content))) # <<>>
       THEN UsesMatch(Trim(StripTags(m.content)))
  ELSE ContentAttrMatch(m.content)

\* the item name the handler extracts from the message, <<>> if none
ExtractName(m) ==
  LET n1 == IF m.flavor # <<>> THEN FlavorMatch(m.flavor) ELSE <<>>
      uses == UsesMatch(Trim(StripTags(m.content)))
      n2 == IF n1 = <<>> /\ m.content # <<>>
            THEN (IF uses # <<>> THEN uses ELSE ContentAttrMatch(m.content))
            ELSE n1
  IN IF n2 = <<>> /\ m.originName # <<>> THEN m.originName ELSE n2


\* ------------------------------------------------ createChatMessage: items
\* fromUuid(uuid) for an item locator; NoItem when nothing resolves
FromUuidItem(uuid) ==
  IF \E i \in inv : ItemUuid[i] = uuid
  THEN CHOOSE i \in inv : ItemUuid[i] = uuid
  ELSE NoItem

\* collection.find(pred): the first match in collection order
FirstOf(S) ==
  IF S = {} THEN NoItem
  ELSE ItemOrder[CHOOSE p \in 1..Len(ItemOrder) :
                   /\ ItemOrder[p] \in S
                   /\ \A q \in 1..(p - 1) : ItemOrder[q] \notin S]

\* actor.items.get(itemId)
ActorItem(actorId, itemId) ==
  FirstOf({i \in inv : ItemHome[i] = actorId /\ i = itemId})
\* variant: the name search looks in the world registry only
FindInventoryInWorld(actorId, itemName) ==
  FirstOf({i \in inv : ItemHome[i] = "world" /\ ItemName[i] = itemName
                       /\ ItemType[i] = "consumable"})
\* actor.items.find(i => i.name === itemName && i.type === 'consumable')
FindInventory(actorId, itemName) ==
  FirstOf({i \in inv : ItemHome[i] = actorId /\ ItemName[i] = itemName
                       /\ ItemType[i] = "consumable"})
\* game.items.find(i => i.name === itemName && i.type === 'consumable')
FindWorld(itemName) ==
  FirstOf({i \in inv : ItemHome[i] = "world" /\ ItemName[i] = itemName
                       /\ ItemType[i] = "consumable"})

\* lines 545-566 up to the await: the handler with its item resolved
ChatLookup(rec, item) ==
  LET r == [rec EXCEPT !.item = item,
                       !.name = IF item = NoItem THEN <<>> ELSE ItemName[item]]
  IN IF item = NoItem THEN [r EXCEPT !.pc = "done", !.out = "noItem"]
     ELSE IF ItemType[item] # "consumable"
          THEN [r EXCEPT !.pc = "done", !.out = "notConsumable"]
     ELSE IF flag[item] = NoRef THEN [r EXCEPT !.pc = "done", !.out = "noFlag"]
     ELSE [r EXCEPT !.pc = "awaitMacro", !.out = "pending",
                    !.macroUuid = flag[item]]

\* variant: the origin locator is tried whether or not an item was found
ChatAfterContextTriesOrigin(rec, item) ==
  IF rec.msg.origin # NoRef
  THEN [rec EXCEPT !.pc = "awaitOrigin", !.out = "pending"]
  ELSE ChatLookup(rec, item)

\* lines 438-447: try the origin locator if there is still no item
ChatAfterContext(rec, item) ==
  IF item = NoItem /\ rec.msg.origin # NoRef
  THEN [rec EXCEPT !.pc = "awaitOrigin", !.out = "pending"]
  ELSE ChatLookup(rec, item)

\* lines 449-531 up to the await on the source locator
ChatAfterOrigin(rec, item) ==
  LET parts == rec.msg.origin
      positional == Len(parts) >= 3 /\ parts[1] = "Actor" /\ parts[3] = "Item"
      actorId == parts[2]
      itemId == IF Len(parts) >= 4 THEN parts[4] ELSE NoItem
      direct == ActorItem(actorId, itemId)
      itemName == ExtractName(rec.msg)
      inInventory == FindInventory(actorId, itemName)
      inWorld == FindWorld(itemName)
      byName == IF inInventory # NoItem THEN inInventory ELSE inWorld
  IN IF item # NoItem THEN ChatLookup(rec, item)
     ELSE IF ~(positional /\ actorId \in ActorIds) THEN ChatLookup(rec, NoItem)
     ELSE IF direct # NoItem THEN ChatLookup(rec, direct)
     ELSE IF itemName = <<>> THEN ChatLookup(rec, NoItem)
     ELSE IF byName = NoItem /\ rec.msg.sourceId # NoRef
          THEN [rec EXCEPT !.pc = "awaitSource", !.out = "pending",
                           !.itemName = itemName]
     ELSE ChatLookup([rec EXCEPT !.itemName = itemName], byName)

CreateChatMessage(m, userId) ==
  /\ CanNotify
  /\ LET base == [Handler("createChatMessage", userId, NoItem, "done", "wrongUser")
                    EXCEPT !.msg = m]
     IN h' = Append(h,
               IF userId # Me THEN base
               ELSE IF m.item = NoItem /\ m.ctx # NoRef
                    THEN [base EXCEPT !.pc = "awaitCtx", !.out = "pending"]
               ELSE ChatAfterContext(base, IF m.item \in inv THEN m.item ELSE NoItem))
  /\ UNCHANGED <<hostVars, dedupVars, consumedItems, histVars, now>>

\* item = await fromUuid(message.flags.pf2e.context.item)
ChatContextResolves(k) ==
  /\ CanStep
  /\ k \in 1..Len(h)
  /\ h[k].pc = "awaitCtx"
  /\ h' = [h EXCEPT ![k] = ChatAfterContext(h[k], FromUuidItem(h[k].msg.ctx))]
  /\ UNCHANGED <<hostVars, dedupVars, consumedItems, histVars, now>>

\* item = await fromUuid(message.flags.pf2e.origin.uuid)
ChatOriginResolves(k) ==
  /\ CanStep
  /\ k \in 1..Len(h)
  /\ h[k].pc = "awaitOrigin"
  /\ h' = [h EXCEPT ![k] = ChatAfterOrigin(h[k], FromUuidItem(h[k].msg.origin))]
  /\ UNCHANGED <<hostVars, dedupVars, consumedItems, histVars, now>>

\* variant: the source item is taken whatever its name
ChatSourceResolvesAnyName(k) ==
  /\ CanStep
  /\ k \in 1..Len(h)
  /\ h[k].pc = "awaitSource"
  /\ h' = [h EXCEPT ![k] = ChatLookup(h[k], FromUuidItem(h[k].msg.sourceId))]
  /\ UNCHANGED <<hostVars, dedupVars, consumedItems, histVars, now>>

\* sourceItem = await fromUuid(message.flags.pf2e.origin.sourceId)
ChatSourceResolves(k) ==
  /\ CanStep
  /\ k \in 1..Len(h)
  /\ h[k].pc = "awaitSource"
  /\ LET src == FromUuidItem(h[k].msg.sourceId)
         item == IF src # NoItem /\ ItemName[src] = h[k].itemName
                 THEN src ELSE NoItem
     IN h' = [h EXCEPT ![k] = ChatLookup(h[k], item)]
  /\ UNCHANGED <<hostVars, dedupVars, consumedItems, histVars, now>>

\* ------------------------------------------- macro lookup, suppressor, invoke
\* variant: the delete path ignores the snapshot's actor
InvocationContextOfSpeaker(rec) ==
  [actor |-> IF rec.path = "pf2e.consumeItem" THEN rec.actor ELSE SpeakerActor,
   item |-> rec.item,
   macro |-> rec.macroUuid,
   keys |-> IF rec.path = "pf2e.useItem"
            THEN {"actor", "token", "character", "item", "speaker", "event", "target"}
            ELSE IF rec.path = "createChatMessage"
            THEN {"actor", "token", "character", "item", "speaker", "message"}
            ELSE {"actor", "token", "character", "item", "speaker"}]

\* the context object handed to macro.execute
InvocationContext(rec) ==
  LET common == {"actor", "token", "character", "item", "speaker"}
  IN [actor |-> IF rec.path = "deleteItem" /\ rec.actor # NoActor THEN rec.actor
                ELSE IF rec.path = "pf2e.consumeItem" THEN rec.actor
                ELSE SpeakerActor,
      item |-> rec.item,
      macro |-> rec.macroUuid,
      keys |-> IF rec.path = "pf2e.useItem" THEN common \cup {"event", "target"}
               ELSE IF rec.path = "createChatMessage" THEN common \cup {"message"}
               ELSE common]

\* variant: the handler does not test the lookup's result
MacroAlwaysResolves(macroUuid) == TRUE
\* const macro = await fromUuid(macroUuid): does it yield a macro document
MacroResolves(macroUuid) == macroUuid \in macros

\* variant: the suppressor is asked before the lookup's result is tested
MacroLookupAsksFirst(k) ==
  /\ CanStep
  /\ k \in 1..Len(h)
  /\ h[k].pc = "awaitMacro"
  /\ LET rec == h[k]
         found == MacroResolves(rec.macroUuid)
         ok == ShouldExecuteMacro(recentlyExecuted, rec.name, rec.macroUuid)
         called == [rec EXCEPT !.callAt = now,
                               !.live = LiveByHistory(Key(rec.name, rec.macroUuid)),
                               !.ret = IF ok THEN "true" ELSE "false"]
     IN /\ h' = [h EXCEPT ![k] =
                   IF ~found THEN [rec EXCEPT !.pc = "done", !.out = "macroNotFound",
                                              !.missing = rec.macroUuid \notin macros]
                   ELSE IF ~ok THEN [called EXCEPT !.pc = "done", !.out = "duplicate"]
                   ELSE [called EXCEPT !.pc = "awaitExec", !.ran = TRUE,
                                       !.missing = rec.macroUuid \notin macros,
                                       !.ctx = InvocationContext(rec)]]
        /\ recentlyExecuted' = RegisterKey(recentlyExecuted, rec.name, rec.macroUuid)
        /\ timers' = ScheduleExpiry(timers, recentlyExecuted, rec.name, rec.macroUuid)
  /\ UNCHANGED <<hostVars, consumedItems, histVars, now>>

\* From the awaited macro lookup to the call of macro.execute: the macro is
\* missing, or the suppressor rejects, or the key is registered and the macro
\* is started.  All five handlers share these lines.
MacroLookupResumes(k) ==
  /\ CanStep
  /\ k \in 1..Len(h)
  /\ h[k].pc = "awaitMacro"
  /\ LET rec == h[k]
         found == MacroResolves(rec.macroUuid)
         ok == ShouldExecuteMacro(recentlyExecuted, rec.name, rec.macroUuid)
         called == [rec EXCEPT !.callAt = now,
                               !.live = LiveByHistory(Key(rec.name, rec.macroUuid)),
                               !.ret = IF ok THEN "true" ELSE "false"]
     IN /\ h' = [h EXCEPT ![k] =
                   IF ~found THEN [rec EXCEPT !.pc = "done", !.out = "macroNotFound",
                                              !.missing = rec.macroUuid \notin macros]
                   ELSE IF ~ok THEN [called EXCEPT !.pc = "done", !.out = "duplicate"]
                   ELSE [called EXCEPT !.pc = "awaitExec", !.ran = TRUE,
                                       !.missing = rec.macroUuid \notin macros,
                                       !.ctx = InvocationContext(rec)]]
        /\ recentlyExecuted' =
             IF found THEN RegisterKey(recentlyExecuted, rec.name, rec.macroUuid)
             ELSE recentlyExecuted
        /\ timers' =
             IF found
             THEN ScheduleExpiry(timers, recentlyExecuted, rec.name, rec.macroUuid)
             ELSE timers
  /\ UNCHANGED <<hostVars, consumedItems, histVars, now>>

\* variant: the catch block only logs
CatchSilent(threw) == 0
\* the catch block: the number of ui.notifications.error calls it makes
CatchReports(threw) == IF threw THEN 1 ELSE 0
\* variant: a failed invocation sends the handler back to its macro lookup
HandlerEndsRetries(threw) == IF threw THEN "awaitMacro" ELSE "done"
\* the state the handler's promise ends in
HandlerEnds(threw) == "done"

\* variant: the catch block gives the consumed unit back to the item
ExecuteSettlesRestores(k, threw) ==
  /\ CanStep
  /\ k \in 1..Len(h)
  /\ h[k].pc = "awaitExec"
  /\ h' = [h EXCEPT ![k] = [h[k] EXCEPT !.pc = HandlerEnds(threw),
                                        !.out = IF threw THEN "failed" ELSE "executed",
                                        !.ui = CatchReports(threw)]]
  /\ qty' = IF threw /\ h[k].item \in ItemIds
            THEN [qty EXCEPT ![h[k].item] = @ + 1] ELSE qty
  /\ UNCHANGED <<flag, inv, macros, edits, dedupVars, consumedItems, histVars, now>>

\* await macro.execute(...) settles: it returned, or it raised a failure
ExecuteSettles(k, threw) ==
  /\ CanStep
  /\ k \in 1..Len(h)
  /\ h[k].pc = "awaitExec"
  /\ h' = [h EXCEPT ![k] = [h[k] EXCEPT !.pc = HandlerEnds(threw),
                                        !.out = IF threw THEN "failed" ELSE "executed",
                                        !.ui = CatchReports(threw)]]
  /\ UNCHANGED <<hostVars, dedupVars, consumedItems, histVars, now>>

\* ------------------------------------------------ shouldExecuteMacro alone
\* one call of shouldExecuteMacro(itemName, macroUuid) with any two strings,
\* a string being the sequence of its characters
ShouldExecuteMacroCall(itemName, macroUuid) ==
  /\ CanNotify
  /\ LET ok == ShouldExecuteMacro(recentlyExecuted, itemName, macroUuid)
     IN h' = Append(h, [Handler("shouldExecuteMacro", Me, NoItem, "done", "called")
                          EXCEPT !.name = itemName, !.macroUuid = macroUuid,
                                 !.callAt = now,
                                 !.live = LiveByHistory(Key(itemName, macroUuid)),
                                 !.ret = IF ok THEN "true" ELSE "false"])
  /\ recentlyExecuted' = RegisterKey(recentlyExecuted, itemName, macroUuid)
  /\ timers' = ScheduleExpiry(timers, recentlyExecuted, itemName, macroUuid)
  /\ UNCHANGED <<hostVars, consumedItems, histVars, now>>

\* ------------------------------------------------ host and sheet operations
CanEdit == ~TimerDue /\ edits < MaxEdits

\* the host persists a new quantity on an item
HostUpdateItem(i, q) ==
  /\ CanEdit
  /\ i \in inv
  /\ qty[i] # q
  /\ qty' = [qty EXCEPT ![i] = q]
  /\ edits' = edits + 1
  /\ UNCHANGED <<flag, inv, macros, dedupVars, consumedItems, h, histVars, now>>

\* a macro document is deleted from the host
HostDeleteMacro(m) ==
  /\ CanEdit
  /\ m \in macros
  /\ macros' = macros \ {m}
  /\ edits' = edits + 1
  /\ UNCHANGED <<qty, flag, inv, dedupVars, consumedItems, h, histVars, now>>

\* JSON.parse of the dragged text: a payload is the token sequence
\* "{" type uuid "}"; any other text makes JSON.parse throw
JsonParse(raw) ==
  IF Len(raw) = 4 /\ raw[1] = "{" /\ raw[4] = "}"
  THEN [ok |-> TRUE, type |-> raw[2], uuid |-> <<raw[3]>>]
  ELSE [ok |-> FALSE, type |-> "", uuid |-> NoRef]

\* variant: the drop handler does not test the lookup's result
DropResolvesAlways(data) == TRUE
\* const droppedMacro = await fromUuid(data.uuid): does it yield a document
DropResolves(data) == data.uuid \in macros

\* the notification the drop handler shows, "none" if it returns silently
DropNotifies(data) ==
  IF ~data.ok THEN "none"
  ELSE IF data.type # "Macro" THEN "none"
  ELSE IF ~DropResolves(data) THEN "error"
  ELSE "info"

\* the drop handler of the item sheet: raw is the dragged text
DropMacro(i, raw) ==
  /\ CanEdit
  /\ i \in inv
  /\ ItemType[i] = "consumable"
  /\ LET data == JsonParse(raw)
         ui == DropNotifies(data)
     IN /\ flag' = IF ui = "info" THEN [flag EXCEPT ![i] = data.uuid] ELSE flag
        /\ last' = [op |-> "drop", item |-> i, ui |-> ui, raw |-> raw,
                    before |-> flag[i], n |-> edits + 1]
  /\ edits' = edits + 1
  /\ UNCHANGED <<qty, inv, macros, dedupVars, consumedItems, h, preDeleted, now>>

\* variant: the control clears the flag only while its macro still exists
RemoveMacroIfResolves(i) ==
  /\ CanEdit
  /\ i \in inv
  /\ ItemType[i] = "consumable"
  /\ flag' = IF flag[i] \in macros THEN [flag EXCEPT ![i] = NoRef] ELSE flag
  /\ last' = [op |-> "remove", item |-> i, ui |-> "info", raw |-> <<>>,
              before |-> flag[i], n |-> edits + 1]
  /\ edits' = edits + 1
  /\ UNCHANGED <<qty, inv, macros, dedupVars, consumedItems, h, preDeleted, now>>

\* the click handler of the remove control, on a sheet rendered at any
\* earlier time: item.unsetFlag, then the confirmation
RemoveMacro(i) ==
  /\ CanEdit
  /\ i \in inv
  /\ ItemType[i] = "consumable"
  /\ flag' = [flag EXCEPT ![i] = NoRef]
  /\ last' = [op |-> "remove", item |-> i, ui |-> "info", raw |-> <<>>,
              before |-> flag[i], n |-> edits + 1]
  /\ edits' = edits + 1
  /\ UNCHANGED <<qty, inv, macros, dedupVars, consumedItems, h, preDeleted, now>>


\* ------------------------------------------------------------ specification
NoOp == [op |-> "none", item |-> NoItem, ui |-> "none", raw |-> <<>>,
         before |-> NoRef, n |-> 0]

\* the state after the module has loaded, item i1 holding q units
InitWith(q) ==
  /\ qty = [i \in ItemIds |-> IF i = "i1" THEN q ELSE 1]
  /\ flag = [i \in ItemIds |-> IF i = "c1" THEN M2 ELSE M1]
  /\ inv = StartItems
  /\ macros = MacroUuids
  /\ edits = 0
  /\ recentlyExecuted = {}
  /\ timers = {}
  /\ consumedItems = [i \in ItemIds |-> NoSnap]
  /\ h = <<>>
  /\ last = NoOp
  /\ preDeleted = [i \in ItemIds |-> NoPre]
  /\ now = 0

Init == InitWith(2)

\* the payloads the host sends
TmpUuid == <<"Actor", "a1", "Item", "tmp">>
UsesPotion == <<"<p>", "Uses", " ", "Healing", " ", "Potion", "</p>">>
MsgDirect == [NoMsg EXCEPT !.item = "i1"]
\* dragged texts: two macros, a document of another type, and plain text
DropPayloads == {<<"{", "Macro", M1[1], "}">>, <<"{", "Macro", M2[1], "}">>,
                 <<"{", "Item", M2[1], "}">>, Potion}

Timers == \E tm \in timers : ExpireKey(tm)
Resumes ==
  \E k \in 1..MaxNotifs :
    \/ MacroLookupResumes(k)
    \/ \E threw \in BOOLEAN : ExecuteSettles(k, threw)
ChatResumes ==
  \E k \in 1..MaxNotifs :
    \/ ChatContextResolves(k)
    \/ ChatOriginResolves(k)
    \/ ChatSourceResolves(k)

\* Dispatch: every notification path for the current user's item i1
Next ==
  \/ Tick
  \/ Timers
  \/ Resumes
  \/ HostDeleteMacro(M1)
  \/ PreUpdateItem("i1", 1, Me)
  \/ PreDeleteItem("i1", Me)
  \/ DeleteItem("i1", Me)
  \/ UseItem("i1")
  \/ ConsumeItem("i1", ItemParent["i1"])
  \/ CreateChatMessage(MsgDirect, Me)

Spec == Init /\ [][Next]_vars


\* timers run and time passes: the event loop is never starved for good
LiveSpec == Spec /\ WF_vars(Tick) /\ WF_vars(Timers)

\* Pre-update path: every quantity change, user and item type
InitUpdate == \E q \in Quantities : InitWith(q)

NextUpdate ==
  \/ Tick
  \/ Timers
  \/ Resumes
  \/ \E q \in Quantities : HostUpdateItem("i1", q)
  \/ RemoveMacro("i1")
  \/ \E i \in {"i1", "i3"}, q \in Quantities, u \in Users : PreUpdateItem(i, q, u)

SpecUpdate == InitUpdate /\ [][NextUpdate]_vars

\* Delete path: pre-delete and post-delete, with the sheet edited in between
NextDelete ==
  \/ Tick
  \/ Timers
  \/ Resumes
  \/ \E m \in MacroUuids : HostDeleteMacro(m)
  \/ \E d \in DropPayloads : DropMacro("i1", d)
  \/ RemoveMacro("i1")
  \/ \E i \in {"i1", "i3"}, u \in Users : PreDeleteItem(i, u)
  \/ \E i \in {"i1", "i3"}, u \in Users : DeleteItem(i, u)

\* the last unit of i1 is about to be consumed
InitDelete == InitWith(1)
SpecDelete == InitDelete /\ [][NextDelete]_vars

\* Chat-message path: the messages the resolver has to tell apart
FlavorSword == <<TagItemId, "Sword", "</span>">>
MsgContext == [NoMsg EXCEPT !.ctx = ItemUuid["i1"]]
MsgUses == [NoMsg EXCEPT !.origin = TmpUuid, !.content = UsesPotion]
MsgUsesUpper == [NoMsg EXCEPT !.origin = TmpUuid,
                   !.content = <<" ", "USES", " ", "\n", "Healing", " ", "Potion">>]
MsgUsesNoOrigin == [NoMsg EXCEPT !.content = UsesPotion]
MsgUsesContext == [NoMsg EXCEPT !.ctx = ItemUuid["i3"], !.content = UsesPotion]
MsgUsesOrigin == [NoMsg EXCEPT !.origin = ItemUuid["i3"], !.content = UsesPotion]
MsgUsesFlavor == [NoMsg EXCEPT !.origin = TmpUuid, !.flavor = FlavorSword,
                               !.content = UsesPotion]
MsgSource == [NoMsg EXCEPT !.origin = TmpUuid, !.originName = Elixir,
                           !.sourceId = ItemUuid["c1"]]
ChatMessages == {MsgDirect, MsgContext, MsgUses, MsgUsesUpper, MsgUsesNoOrigin,
                 MsgUsesContext, MsgUsesOrigin, MsgUsesFlavor, MsgSource}

NextChat ==
  \/ Tick
  \/ Timers
  \/ Resumes
  \/ ChatResumes
  \/ \E m \in ChatMessages, u \in Users : CreateChatMessage(m, u)

SpecChat == Init /\ [][NextChat]_vars


\* Item sheet: drops and removals on the sheet of i1, whatever the flag names
\* and whichever macros exist, with a consumption of the item in between
InitSheet ==
  \E f \in MacroUuids \cup {NoRef}, ms \in SUBSET MacroUuids :
    /\ qty = [i \in ItemIds |-> 1]
    /\ flag = [i \in ItemIds |-> IF i = "i1" THEN f ELSE M1]
    /\ inv = StartItems
    /\ macros = ms
    /\ edits = 0
    /\ recentlyExecuted = {}
    /\ timers = {}
    /\ consumedItems = [i \in ItemIds |-> NoSnap]
    /\ h = <<>>
    /\ last = NoOp
    /\ preDeleted = [i \in ItemIds |-> NoPre]
    /\ now = 0

NextSheet ==
  \/ Tick
  \/ Timers
  \/ Resumes
  \/ \E m \in MacroUuids : HostDeleteMacro(m)
  \/ \E d \in DropPayloads : DropMacro("i1", d)
  \/ RemoveMacro("i1")
  \/ UseItem("i1")

SpecSheet == InitSheet /\ [][NextSheet]_vars


\* Every path, for an owned consumable (i1), an unowned world consumable (i2)
\* and an owned weapon that carries a flag (i3)
MsgWeapon == [NoMsg EXCEPT !.item = "i3"]
NextPaths ==
  \/ Tick
  \/ Timers
  \/ Resumes
  \/ PreUpdateItem("i1", 1, Me)
  \/ \E i \in {"i1", "i2"} : PreDeleteItem(i, Me)
  \/ \E i \in {"i1", "i2"} : DeleteItem(i, Me)
  \/ \E i \in {"i1", "i3"} : UseItem(i)
  \/ \E i \in {"i1", "i3"} : ConsumeItem(i, ItemParent[i])
  \/ \E m \in {MsgDirect, MsgWeapon} : CreateChatMessage(m, Me)

\* the owned consumable with or without a macro attached
InitPaths ==
  \E f \in {M1, NoRef} :
    /\ qty = [i \in ItemIds |-> IF i = "i1" THEN 2 ELSE 1]
    /\ flag = [i \in ItemIds |-> IF i = "i1" THEN f ELSE M1]
    /\ inv = StartItems
    /\ macros = MacroUuids
    /\ edits = 0
    /\ recentlyExecuted = {}
    /\ timers = {}
    /\ consumedItems = [i \in ItemIds |-> NoSnap]
    /\ h = <<>>
    /\ last = NoOp
    /\ preDeleted = [i \in ItemIds |-> NoPre]
    /\ now = 0

SpecPaths == InitPaths /\ [][NextPaths]_vars


\* Stacked item: i1 holds three units, consumed one at a time; the host
\* notifies each decrement (and pf2e.useItem with it) and persists it
InitStack == InitWith(3)

NextStack ==
  \/ Tick
  \/ Timers
  \/ Resumes
  \/ (qty["i1"] > 1 /\ PreUpdateItem("i1", qty["i1"] - 1, Me))
  \/ (qty["i1"] > 1 /\ HostUpdateItem("i1", qty["i1"] - 1))
  \/ UseItem("i1")

SpecStack == InitStack /\ [][NextStack]_vars

\* Every writer of an item together: the six notification paths for i1, the
\* sheet's drop zone and remove control, and the host persisting a quantity
NextFrame ==
  \/ Tick
  \/ Timers
  \/ Resumes
  \/ HostUpdateItem("i1", 1)
  \/ \E d \in DropPayloads : DropMacro("i1", d)
  \/ RemoveMacro("i1")
  \/ PreUpdateItem("i1", 1, Me)
  \/ PreDeleteItem("i1", Me)
  \/ DeleteItem("i1", Me)
  \/ UseItem("i1")
  \/ ConsumeItem("i1", ItemParent["i1"])
  \/ CreateChatMessage(MsgDirect, Me)

SpecFrame == Init /\ [][NextFrame]_vars

\* Item resolver: one message per way through the fallback chain, in worlds
\* that hold both potions of a1, one, only the world's, or none
TagDrink == <<TagItemName, "drink", "</span>">>
MsgContextOrigin == [NoMsg EXCEPT !.ctx = ItemUuid["i1"], !.origin = ItemUuid["i3"]]
MsgPositional == [NoMsg EXCEPT !.origin = ItemUuid["i1"] \o <<"ActiveEffect">>,
                               !.content = <<"Uses", " ", "Elixir">>]
MsgOriginGone == [NoMsg EXCEPT !.origin = <<"Item", "tmp">>, !.content = UsesPotion]
MsgOtherActor == [NoMsg EXCEPT !.origin = <<"Actor", "a9", "Item", "tmp">>,
                               !.content = UsesPotion]
MsgFlavorSource == [MsgUsesFlavor EXCEPT !.sourceId = ItemUuid["c1"]]
MsgUsesSource == [MsgUses EXCEPT !.sourceId = ItemUuid["c1"]]
MsgAttr == [NoMsg EXCEPT !.origin = TmpUuid, !.content = TagDrink,
                         !.originName = Potion, !.sourceId = ItemUuid["c1"]]
MsgUsesNamed == [NoMsg EXCEPT !.origin = TmpUuid, !.originName = Elixir,
                              !.content = <<"<p>", "uses", " ", "Healing", " ",
                                            "Potion", "</p>", TagItemName>>]
ResolverMessages ==
  {MsgDirect, MsgContextOrigin, MsgUsesContext, MsgUsesOrigin, MsgPositional,
   MsgOriginGone, MsgOtherActor, MsgUsesNoOrigin, MsgUses, MsgUsesFlavor,
   MsgFlavorSource, MsgUsesSource, MsgSource, MsgAttr, MsgUsesNamed}

InitResolve ==
  \E world \in {StartItems, ItemIds, ItemIds \ {"i4", "i1"}, {"i3", "c1"}} :
    /\ qty = [i \in ItemIds |-> 1]
    /\ flag = [i \in ItemIds |-> IF i = "c1" THEN M2 ELSE M1]
    /\ inv = world
    /\ macros = MacroUuids
    /\ edits = 0
    /\ recentlyExecuted = {}
    /\ timers = {}
    /\ consumedItems = [i \in ItemIds |-> NoSnap]
    /\ h = <<>>
    /\ last = NoOp
    /\ preDeleted = [i \in ItemIds |-> NoPre]
    /\ now = 0

NextResolve ==
  \/ Tick
  \/ Timers
  \/ Resumes
  \/ ChatResumes
  \/ \E m \in ResolverMessages : CreateChatMessage(m, Me)

SpecResolve == InitResolve /\ [][NextResolve]_vars

\* Ignored notifications: every reason a handler has to return without
\* invoking, on the pre-update and the chat-message path
NextIgnored ==
  \/ Tick
  \/ Timers
  \/ Resumes
  \/ ChatResumes
  \/ HostDeleteMacro(M1)
  \/ RemoveMacro("i1")
  \/ \E i \in {"i1", "i3"}, q \in {1, 2}, u \in Users : PreUpdateItem(i, q, u)
  \/ \E m \in {MsgContext, MsgFlavorSource} : CreateChatMessage(m, Me)

SpecIgnored == Init /\ [][NextIgnored]_vars

\* The suppressor on its own: calls with every pair of non-empty strings of
\* at most MaxLen characters over a letter and the colon
Chars == {"a", ":"}
Strings == UNION {[1..n -> Chars] : n \in 1..MaxLen}

NextKeys ==
  \/ Tick
  \/ Timers
  \/ \E itemName \in Strings, macroUuid \in Strings :
       ShouldExecuteMacroCall(itemName, macroUuid)

SpecKeys == Init /\ [][NextKeys]_vars

\* ------------------------------------------------------------------ claims
Hs == 1..Len(h)
KeyOf(k) == Key(h[k].name, h[k].macroUuid)
\* the handler passed its checks, found its macro and asked the suppressor
Called(k) == h[k].ret # "none"
Ran == {k \in Hs : h[k].ran}
AllDone == \A k \in Hs : h[k].pc = "done"
Abs(x) == IF x < 0 THEN 0 - x ELSE x

\* C1: a burst of notifications for one consumption of one item with an
\* attached, resolvable macro, all arriving less than 500 ms after the first,
\* each on a different path, leads to exactly one macro.execute call once
\* every handler has finished.
C1_ExactlyOncePerBurst ==
  (/\ Len(h) >= 1
   /\ AllDone
   /\ \A k \in Hs : /\ Called(k)
                    /\ KeyOf(k) = KeyOf(1)
                    /\ h[k].at - h[1].at < DedupWindow
                    /\ \A j \in Hs : j # k => h[j].path # h[k].path)
  => Cardinality(Ran) = 1

\* C2: while a dedup entry for a key is live no second invocation for the key
\* starts: every invocation registers its key, two invocations of one key are
\* at least a window apart, and every live entry has the invocation that
\* registered it.
C2_NoSecondWhileLive ==
  /\ \A k \in Ran : h[k].ret = "true"
  /\ \A j, k \in Ran :
       (j # k /\ KeyOf(j) = KeyOf(k)) => Abs(h[j].callAt - h[k].callAt) >= DedupWindow
  /\ \A key \in recentlyExecuted :
       \E k \in Ran : KeyOf(k) = key /\ now <= h[k].callAt + DedupWindow
C2_Witness ==
  \E j, k \in Hs : /\ h[j].ran /\ h[k].out = "duplicate" /\ KeyOf(j) = KeyOf(k)
                   /\ KeyOf(j) \in recentlyExecuted

\* C3: shouldExecuteMacro returns true exactly when no registration of the
\* key is unexpired at the call; returning true it has registered the key
\* with a full window; returning false it leaves the set and the pending
\* expiries as they were.
C3_SuppressorContract ==
  [][\A k \in Hs :
       (h[k].ret = "none" /\ h'[k].ret # "none") =>
         /\ (h'[k].ret = "true") <=> ~LiveByHistory(KeyOf(k))
         /\ h'[k].ret = "true" =>
              /\ KeyOf(k) \in recentlyExecuted'
              /\ [key |-> KeyOf(k), rem |-> DedupWindow] \in timers'
         /\ h'[k].ret = "false" => UNCHANGED <<recentlyExecuted, timers>>]_vars
C3_Witness ==
  \E j, k \in Hs : /\ h[j].ret = "true" /\ h[k].ret = "false"
                   /\ \E i \in Hs : h[i].ret = "true" /\ h[i].callAt >= DedupWindow

\* C4: two notifications for the same key, the second arriving more than
\* 500 ms after the first, each for an item whose macro resolves, both end in
\* an invocation, however long the lookups take.
C4_BothInvokedAfterWindow ==
  (/\ Len(h) = 2
   /\ AllDone
   /\ Called(1) /\ Called(2) /\ KeyOf(1) = KeyOf(2)
   /\ h[2].at - h[1].at > DedupWindow)
  => (h[1].ran /\ h[2].ran)

\* C5: a registered key stays for exactly the window and is then removed by
\* its own timer: an entry is in the set exactly while a registration is less
\* than 500 ms old, its one timer counts down from the registration (a
\* rejected duplicate does not restart it), and every entry is eventually
\* removed.
WindowRunsFromRegistration ==
  /\ \A key \in recentlyExecuted :
       \E tm \in timers :
         /\ tm.key = key
         /\ tm.rem >= 0
         /\ \A other \in timers : other.key = key => other = tm
         /\ \E k \in Hs : /\ h[k].ret = "true" /\ KeyOf(k) = key
                          /\ (now < MaxTime => now - h[k].callAt = DedupWindow - tm.rem)
  /\ \A tm \in timers : tm.key \in recentlyExecuted
  /\ \A k \in Hs :
       (h[k].ret = "true" /\ now < MaxTime /\ now < h[k].callAt + DedupWindow)
         => KeyOf(k) \in recentlyExecuted
C5_EntriesExpire ==
  /\ []WindowRunsFromRegistration
  /\ \A key \in {Key(Potion, M1)} :
       (key \in recentlyExecuted) ~> (key \notin recentlyExecuted)
C5_Witness ==
  /\ recentlyExecuted = {}
  /\ \E j, k \in Hs : /\ h[j].ret = "true" /\ h[k].ret = "false"
                      /\ h[k].callAt > h[j].callAt
                      /\ now = h[j].callAt + DedupWindow


\* C6: a pre-update notification whose new quantity is not below the item's
\* current quantity never invokes a macro and never registers a dedup entry.
NotBelow(k) ==
  /\ h[k].path = "preUpdateItem"
  /\ h[k].newQ # Undefined /\ h[k].oldQ # Undefined
  /\ h[k].newQ >= h[k].oldQ
C6_NoInvocationWithoutDecrease ==
  /\ \A k \in Hs :
       NotBelow(k) => /\ h[k].pc = "done" /\ ~h[k].ran
                      /\ h[k].ret = "none" /\ h[k].callAt = Undefined
  /\ (\A k \in Hs : NotBelow(k)) => (recentlyExecuted = {} /\ timers = {})
C6_Witness ==
  \E k \in Hs : /\ NotBelow(k) /\ h[k].newQ > 0 /\ h[k].user = Me
                /\ ItemType[h[k].item] = "consumable"
                /\ flag[h[k].item] \in macros

\* C7: when the current user deletes a consumable with quantity 1 and an
\* attached macro that resolves (pre-delete, then post-delete for the same
\* id), the post-delete handler invokes exactly once, and it invokes the
\* macro the item's flag named at pre-delete time, whatever the flag says
\* at post-delete time.
FirstDeleteAfterPre(k) ==
  LET i == h[k].item
  IN /\ h[k].path = "deleteItem"
     /\ k > preDeleted[i].n
     /\ \A j \in (preDeleted[i].n + 1)..(k - 1) :
          ~(h[j].path = "deleteItem" /\ h[j].item = i)
C7_DeleteInvokesSnapshot ==
  \A k \in Hs :
    LET i == h[k].item
    IN (/\ FirstDeleteAfterPre(k)
        /\ h[k].pc = "done"
        /\ preDeleted[i].user = Me
        /\ ItemType[i] = "consumable"
        /\ preDeleted[i].flag \in macros)
       => /\ h[k].ran
          /\ h[k].ctx.macro = preDeleted[i].flag
          /\ Cardinality({j \in Ran : h[j].item = i}) = 1
C7_Witness ==
  \E k \in Hs : /\ FirstDeleteAfterPre(k) /\ h[k].pc = "done" /\ h[k].ran
                /\ qty[h[k].item] = 1
                /\ h[k].ctx.macro = M1
                /\ flag[h[k].item] = M2

\* C8: a chat message from the current user with no direct item reference
\* and the body "Uses N", whose actor owns exactly one consumable named N,
\* resolves to that item, and with a macro attached and resolvable and no
\* dedup entry live the macro is invoked with that item in its context.
Names == {Potion, Sword, Elixir}
Owned(actorId, itemName) ==
  {i \in inv : ItemHome[i] = actorId /\ ItemName[i] = itemName
               /\ ItemType[i] = "consumable"}
\* the one consumable the actor owns under the name in the body "Uses N"
UsesTarget(m) ==
  LET Hit == {i \in ItemIds :
                /\ Trim(StripTags(m.content)) = <<"Uses", " ">> \o ItemName[i]
                /\ Owned("a1", ItemName[i]) = {i}}
  IN IF Hit = {} THEN NoItem ELSE CHOOSE i \in Hit : TRUE
ResolverDone(k) == h[k].pc \notin {"awaitCtx", "awaitOrigin", "awaitSource"}
UsesCase(k) ==
  /\ h[k].path = "createChatMessage"
  /\ h[k].user = Me
  /\ h[k].msg.item = NoItem
  /\ UsesTarget(h[k].msg) # NoItem
  /\ ResolverDone(k)
\* the resolver reaches the name search and the body decides the name
NameSearchCase(k) ==
  LET m == h[k].msg
  IN /\ UsesCase(k)
     /\ FromUuidItem(m.ctx) = NoItem
     /\ Len(m.origin) >= 4 /\ m.origin[1] = "Actor" /\ m.origin[2] = "a1"
     /\ m.origin[3] = "Item"
     /\ FromUuidItem(m.origin) = NoItem
     /\ FlavorMatch(m.flavor) = <<>>
ResolvedAndInvoked(k) ==
  LET i == UsesTarget(h[k].msg)
  IN /\ h[k].item = i
     /\ (flag[i] \in macros /\ h[k].pc = "done") => Called(k)
     /\ (Called(k) /\ ~h[k].live) => (h[k].ran /\ h[k].ctx.item = i
                                        /\ h[k].ctx.macro = flag[i])
C10_FailureIsReportedOnce ==
  /\ \A k \in Hs : h[k].out = "failed" => (h[k].ui = 1 /\ h[k].pc = "done")
  /\ \A k \in Hs : h[k].out # "failed" => h[k].ui = 0
  /\ \A j, k \in Hs :
       (/\ h[j].out = "failed" /\ h[k].at >= h[j].callAt
        /\ Called(k) /\ ~h[k].live) => h[k].ran
C10_Witness ==
  \E j, k \in Hs : /\ h[j].out = "failed" /\ h[j].ui = 1
                   /\ KeyOf(j) = KeyOf(k)
                   /\ h[k].at >= h[j].callAt + DedupWindow
                   /\ h[k].out = "executed"

\* C11: a notification that another user originated is ignored on this
\* client: its handler makes no lookup, asks the suppressor nothing and
\* invokes nothing, on every path.
C11_OtherUsersAreIgnored ==
  \A k \in Hs :
    h[k].user # Me => /\ h[k].pc = "done" /\ ~h[k].ran
                      /\ h[k].ret = "none" /\ h[k].callAt = Undefined

\* C12: a drop writes the flag only if the dropped locator resolves, then to
\* the resolved macro's locator with a confirmation; every failed drop
\* (unparseable text, a payload not of type Macro, a locator that resolves to
\* nothing) shows an error notification and leaves every flag as it was.
DropStep == edits' # edits /\ last'.op = "drop" /\ last'.n = edits'
DropIsGood(data) == data.ok /\ data.type = "Macro" /\ data.uuid \in macros
C12_FailedDropsReport ==
  [][DropStep =>
       LET data == JsonParse(last'.raw)
       IN IF DropIsGood(data)
          THEN /\ flag' = [flag EXCEPT ![last'.item] = data.uuid]
               /\ last'.ui = "info"
          ELSE /\ flag' = flag
               /\ last'.ui = "error"]_vars
\* C12 as the handler has it: only a payload of type Macro whose locator
\* resolves to nothing shows the error; unparseable text and a payload of
\* another type are ignored without a notification.
C12_DropWritesOnlyResolved ==
  [][DropStep =>
       LET data == JsonParse(last'.raw)
       IN IF DropIsGood(data)
          THEN /\ flag' = [flag EXCEPT ![last'.item] = data.uuid]
               /\ last'.ui = "info"
          ELSE /\ flag' = flag
               /\ last'.ui = IF data.ok /\ data.type = "Macro" THEN "error"
                             ELSE "none"]_vars
C12_Witness ==
  /\ last.op = "drop" /\ last.n = edits
  /\ last.ui = "error"
  /\ last.before = M1 /\ flag[last.item] = M1
  /\ JsonParse(last.raw).uuid = M2 /\ M2 \notin macros

\* C13: the remove control clears the item's flag whatever it held before (a
\* macro that exists, a macro that was deleted, nothing); the flag then reads
\* as absent, no other flag changes and no macro document is deleted.
RemoveStep == edits' # edits /\ last'.op = "remove" /\ last'.n = edits'
C13_RemoveClearsFlag ==
  [][RemoveStep => /\ flag' = [flag EXCEPT ![last'.item] = NoRef]
                   /\ flag'[last'.item] = NoRef
                   /\ macros' = macros]_vars
C13_Witness ==
  /\ last.op = "remove" /\ last.n = edits
  /\ last.before = M1 /\ M1 \notin macros /\ M2 \in macros
  /\ flag[last.item] = NoRef

\* C14: every invocation receives actor, token, character, item and speaker,
\* item being the item the handler was notified of; pf2e.useItem adds event
\* and target, the chat path adds message; on the delete path actor is the
\* actor snapshotted at pre-delete.
Common == {"actor", "token", "character", "item", "speaker"}
ExpectedKeys(path) ==
  IF path = "pf2e.useItem" THEN Common \cup {"event", "target"}
  ELSE IF path = "createChatMessage" THEN Common \cup {"message"}
  ELSE Common
C14_DeleteActorIsSnapshot ==
  \A k \in Ran :
    /\ h[k].ctx.keys = ExpectedKeys(h[k].path)
    /\ h[k].ctx.item = h[k].item
    /\ h[k].path = "deleteItem" => h[k].ctx.actor = ItemParent[h[k].item]
\* C14 as the handlers have it: on the delete path actor is the snapshot's
\* actor when the item had an owner at pre-delete, else the speaker's actor;
\* on the pf2e.consumeItem path it is the actor the hook was given; on the
\* other paths it is the speaker's actor.
C14_ContextPerPath ==
  \A k \in Ran :
    /\ h[k].ctx.keys = ExpectedKeys(h[k].path)
    /\ h[k].ctx.item = h[k].item
    /\ h[k].ctx.actor =
         IF h[k].path = "deleteItem"
         THEN (IF ItemParent[h[k].item] # NoActor THEN ItemParent[h[k].item]
               ELSE SpeakerActor)
         ELSE IF h[k].path = "pf2e.consumeItem" THEN ItemParent[h[k].item]
         ELSE SpeakerActor
C14_Witness ==
  \E j, k \in Ran : /\ h[j].path = "deleteItem" /\ h[j].item = "i2"
                    /\ h[j].ctx.actor = SpeakerActor
                    /\ h[k].path = "deleteItem" /\ h[k].item = "i1"
                    /\ h[k].ctx.actor = "a1"

\* C15: a notification about an item whose type is not "consumable" never
\* leads to a macro lookup, a suppressor call or an invocation, on any path,
\* even when the item carries a flag.
C15_OnlyConsumablesInvoke ==
  \A k \in Hs :
    (h[k].item # NoItem /\ ItemType[h[k].item] # "consumable")
      => (h[k].pc = "done" /\ ~h[k].ran /\ h[k].ret = "none")

\* C16: the suppressor is asked before the handler's first await: a handler
\* suspended on an item or macro lookup has already got its dedup decision.
C16_SuppressorBeforeAwait ==
  \A k \in Hs :
    h[k].pc \in {"awaitCtx", "awaitOrigin", "awaitSource", "awaitMacro"}
      => Called(k)

\* C17: on every path the handler reads the macro reference and stops if it
\* is absent; it asks the suppressor about (item.name, macroReference) and
\* stops if rejected; an accepted call is followed at once by the invocation.
\* So every invocation starts in the step in which the suppressor accepted
\* and registered exactly the invoked item's name and the invoked macro.
InvocationStarts(k) == k \in Hs /\ ~h[k].ran /\ h'[k].ran
OrderWithinHandler ==
  \A k \in Hs :
    /\ h[k].out = "noFlag" => (h[k].pc = "done" /\ ~Called(k) /\ ~h[k].ran)
    /\ Called(k) => h[k].macroUuid # NoRef
    /\ h[k].ret = "false" => (h[k].pc = "done" /\ ~h[k].ran)
    /\ h[k].ret = "true" <=> h[k].ran
C18_LookupOnlyOnRecordedDecrease ==
  \A k \in Hs :
    (h[k].path = "preUpdateItem" /\ h[k].macroUuid # NoRef)
      => /\ h[k].newQ # Undefined
         /\ h[k].oldQ # Undefined
         /\ h[k].newQ < h[k].oldQ

\* C19: a pre-update notification by the current user on a consumable with
\* an attached macro that resolves, setting a quantity that is a non-negative
\* integer strictly below the current one, ends in an invocation unless a
\* dedup entry was live.
C19_EveryDecreaseInvokes ==
  \A k \in Hs :
    (/\ h[k].path = "preUpdateItem" /\ h[k].user = Me
     /\ ItemType[h[k].item] = "consumable"
     /\ flag[h[k].item] \in macros
     /\ h[k].oldQ # Undefined
     /\ h[k].newQ >= 0 /\ h[k].newQ < h[k].oldQ
     /\ h[k].pc = "done" /\ ~h[k].live)
      => h[k].ran

\* C20: the pending-deletion table is written only by the pre-delete handler
\* and emptied only by the post-delete handler; an entry is the snapshot of
\* the latest pre-delete and is consumed by at most one post-delete
\* notification, so of the post-delete notifications that follow one
\* pre-delete at most one finds an entry and at most one invokes.
DeletesSincePre(i) ==
  {k \in Hs : /\ k > preDeleted[i].n
              /\ h[k].path = "deleteItem" /\ h[k].item = i}
TableMatchesHistory ==
  \A i \in ItemIds :
    /\ Cardinality({k \in DeletesSincePre(i) : h[k].out # "noStored"}) <= 1
    /\ Cardinality({k \in DeletesSincePre(i) : h[k].ran}) <= 1
    /\ consumedItems[i] # NoSnap =>
         /\ preDeleted[i].user = Me
         /\ consumedItems[i] = [name |-> ItemName[i],
                                macroUuid |-> preDeleted[i].flag,
                                actor |-> ItemParent[i]]
         /\ DeletesSincePre(i) = {}
TableStep(i) ==
  \/ /\ consumedItems'[i] # NoSnap
     /\ preDeleted'[i].user = Me /\ preDeleted'[i].n = Len(h)
     /\ h' = h
  \/ /\ consumedItems'[i] = NoSnap
     /\ Len(h') = Len(h) + 1
     /\ h'[Len(h')].path = "deleteItem" /\ h'[Len(h')].item = i
     /\ h'[Len(h')].macroUuid = consumedItems[i].macroUuid
C20_TableWrittenOnceConsumedOnce ==
  /\ []TableMatchesHistory
  /\ [][\A i \in ItemIds :
          consumedItems'[i] # consumedItems[i] =>
            /\ TableStep(i)
            /\ \A j \in ItemIds \ {i} : consumedItems'[j] = consumedItems[j]]_vars
C20_Witness ==
  \E j, k \in DeletesSincePre("i1") :
    /\ j < k
    /\ preDeleted["i1"].user = Me
    /\ h[j].ran
    /\ h[k].out = "noStored"

\* C21: the pending-deletion table is short-lived: an entry written at
\* pre-delete is eventually removed, also when no post-delete notification
\* for the item ever follows.
C21_PendingEntriesAreRemoved ==
  \A i \in {"i1"} : (consumedItems[i] # NoSnap) ~> (consumedItems[i] = NoSnap)

\* two pre-update notifications that report different old quantities belong
\* to two distinct consumptions of the stack
DistinctConsumptions(j, k) ==
  /\ h[j].path = "preUpdateItem" /\ h[k].path = "preUpdateItem"
  /\ h[j].oldQ # h[k].oldQ

\* C22 (as stated): two distinct physical consumptions of the same stacked
\* item, two separate quantity decrements, each result in an invocation.
C22_EachConsumptionInvokes ==
  AllDone =>
    \A j \in Hs, k \in Hs :
      (DistinctConsumptions(j, k) /\ Called(j) /\ Called(k))
        => (h[j].ran /\ h[k].ran)

\* the accepted suppressor calls for k's key less than the window from k's
Near(k) ==
  {j \in Hs \ {k} : /\ h[j].ran
                    /\ KeyOf(j) = KeyOf(k)
                    /\ Abs(h[k].callAt - h[j].callAt) < DedupWindow}

\* C22 (amended): a handler that reaches the suppressor invokes the macro
\* exactly when no other accepted suppressor call for the same item name and
\* macro lies less than 500 ms from its own call: consumptions whose calls
\* are at least 500 ms apart each invoke, calls closer than that (a burst,
\* or a second consumption) yield one invocation.
C22_ConsumptionsApartInvoke ==
  \A k \in Hs : Called(k) => (h[k].ran <=> Near(k) = {})

\* both decrements of the stack were notified and both invoked the macro
C22_Witness ==
  /\ \E j \in Hs, k \in Hs :
       DistinctConsumptions(j, k) /\ h[j].ran /\ h[k].ran /\ AllDone

\* C23: there are no retries.  A handler starts macro.execute at most once;
\* a handler the suppressor rejected, or whose invocation failed, or that
\* has finished in any other way, never acts again, whatever happens later
\* (time passing, the key expiring, other notifications).
C23_NoRetries ==
  [][\A k \in Hs :
       /\ (h[k].ran => /\ h'[k].ran
                       /\ h'[k].callAt = h[k].callAt
                       /\ h'[k].pc \in {"awaitExec", "done"})
       /\ (h[k].ret = "false" \/ h[k].out = "failed" \/ h[k].pc = "done")
            => h'[k] = h[k]]_vars

\* a rejected handler whose key has since expired, next to a failed one
C23_Witness ==
  \E j \in Hs, k \in Hs :
    /\ h[j].out = "failed" /\ h[j].ran
    /\ h[k].ret = "false" /\ ~h[k].ran
    /\ now >= h[k].callAt + DedupWindow
    /\ KeyOf(k) \notin recentlyExecuted

HandlerStep == h' # h \/ consumedItems' # consumedItems \/ preDeleted' # preDeleted
\* a step of one of the sheet's two controls
SheetStep == last' # last

\* C25: the plugin writes nothing on an item except its own flag, and only
\* from the drop and removal controls: every step of a consumption handler
\* leaves every item's quantity and flag as they were, also the step in
\* which the invocation fails; the flag changes only in a step of the drop
\* or the removal control, and only on the sheet's item; the controls leave
\* the quantity alone.
C25_OnlyTheFlagIsWritten ==
  [][/\ HandlerStep => (qty' = qty /\ flag' = flag)
     /\ flag' # flag => /\ SheetStep
                        /\ last'.op \in {"drop", "remove"}
                        /\ \A i \in ItemIds : flag'[i] # flag[i] => i = last'.item
     /\ SheetStep => (qty' = qty /\ inv' = inv)]_vars

\* a pre-update handler's invocation failed, and the drop zone has attached
\* another macro to the item
C25_Witness ==
  /\ \E k \in Hs : h[k].out = "failed" /\ h[k].path = "preUpdateItem"
  /\ last.op = "drop" /\ flag["i1"] = M2

\* a chat-message handler of the current user whose resolver has finished
ChatDone(k) ==
  h[k].path = "createChatMessage" /\ h[k].user = Me /\ ResolverDone(k)

\* the place of an item in the order a collection is searched
Pos(i) == CHOOSE p \in 1..Len(ItemOrder) : ItemOrder[p] = i
Earliest(S) ==
  IF S = {} THEN NoItem ELSE CHOOSE i \in S : \A j \in S : Pos(i) <= Pos(j)
\* the consumables of that name in a collection (an actor's items, "world")
NamedIn(home, N) ==
  {i \in inv : ItemHome[i] = home /\ ItemName[i] = N /\ ItemType[i] = "consumable"}
\* the item behind the message's source reference, if it carries the name
SourceNamed(m, N) ==
  LET src == FromUuidItem(m.sourceId)
  IN IF m.sourceId # NoRef /\ src # NoItem /\ ItemName[src] = N
     THEN src ELSE NoItem
\* inventory, then world registry, then source reference
ByName(actorId, N, m) ==
  IF NamedIn(actorId, N) # {} THEN Earliest(NamedIn(actorId, N))
  ELSE IF NamedIn("world", N) # {} THEN Earliest(NamedIn("world", N))
  ELSE SourceNamed(m, N)

\* the four places a name can come from, in the order they are consulted
NameSources(m) ==
  <<FlavorMatch(m.flavor), UsesMatch(Trim(StripTags(m.content))),
    ContentAttrMatch(m.content), m.originName>>
FirstName(m) ==
  LET S == NameSources(m)
      P == {p \in 1..4 : S[p] # <<>>}
  IN IF P = {} THEN <<>> ELSE S[CHOOSE p \in P : \A q \in P : p <= q]

\* the origin locator reads Actor.<owner>.Item.<item>...
Positional(u) == Len(u) >= 3 /\ u[1] = "Actor" /\ u[3] = "Item"
OwnerKnown(u) == Positional(u) /\ u[2] \in ActorIds
\* owner then item, read off the locator's positions
InOwner(u) ==
  IF OwnerKnown(u) /\ Len(u) >= 4
     /\ \E i \in inv : i = u[4] /\ ItemHome[i] = u[2]
  THEN u[4] ELSE NoItem

\* the first three steps: direct reference, context locator, origin locator
ByReference(m) ==
  IF m.item \in inv THEN m.item
  ELSE IF FromUuidItem(m.ctx) # NoItem THEN FromUuidItem(m.ctx)
  ELSE FromUuidItem(m.origin)

\* every step tried as soon as all earlier ones have yielded no item
FlatChainItem(m) ==
  IF ByReference(m) # NoItem THEN ByReference(m)
  ELSE IF InOwner(m.origin) # NoItem THEN InOwner(m.origin)
  ELSE IF FirstName(m) = <<>> THEN NoItem
  ELSE ByName(IF OwnerKnown(m.origin) THEN m.origin[2] ELSE NoActor,
              FirstName(m), m)

\* the positional parse and the name search only under a locator that names
\* a known owner
ChainItem(m) ==
  IF ByReference(m) # NoItem THEN ByReference(m)
  ELSE IF ~OwnerKnown(m.origin) THEN NoItem
  ELSE IF InOwner(m.origin) # NoItem THEN InOwner(m.origin)
  ELSE IF FirstName(m) = <<>> THEN NoItem
  ELSE ByName(m.origin[2], FirstName(m), m)

NameSearched(k) == ChatDone(k) /\ h[k].itemName # <<>>

\* C27: given an extracted name N, the resolver's result is the first
\* consumable named N in the owning actor's inventory if there is one;
\* otherwise the first consumable named N in the world registry if there is
\* one; otherwise the item behind the origin's source reference if its name
\* equals N; otherwise no item.
C27_NameSearchOrder ==
  \A k \in Hs :
    NameSearched(k) =>
      h[k].item = ByName(h[k].msg.origin[2], h[k].itemName, h[k].msg)

\* the inventory held two potions and the first was taken; another message
\* found its item only through the source reference
C27_Witness ==
  \E j \in Hs, k \in Hs :
    /\ NameSearched(j) /\ {"i1", "i4"} \subseteq inv
    /\ h[j].itemName = Potion /\ h[j].item = "i4"
    /\ NameSearched(k) /\ h[k].itemName = Elixir /\ h[k].item = "c1"

\* the resolver of handler k has come to the point where it extracts a name
NameWanted(k) ==
  /\ ChatDone(k)
  /\ ByReference(h[k].msg) = NoItem
  /\ OwnerKnown(h[k].msg.origin)
  /\ InOwner(h[k].msg.origin) = NoItem

\* C28: the name is taken from the first of these that yields one: the
\* element carrying data-item-id in the flavor; "Uses X" at the start of the
\* tag-stripped, trimmed body, in any letter case; the data-item-name
\* attribute in the content; the name in the origin metadata.  A later
\* source counts only if every earlier one yields no name.
C28_NameSourcesInOrder ==
  \A k \in Hs : NameWanted(k) => h[k].itemName = FirstName(h[k].msg)

\* one name came from the body although the content attribute and the origin
\* metadata held another, one from the content attribute although the origin
\* metadata held another
C28_Witness ==
  \E j \in Hs, k \in Hs :
    /\ NameWanted(j) /\ h[j].msg = MsgUsesNamed /\ h[j].itemName = Potion
    /\ NameWanted(k) /\ h[k].msg = MsgAttr /\ h[k].itemName = Elixir

\* the handler returned without invoking, for one of the listed reasons
IgnoreReasons ==
  {"wrongUser", "notConsumable", "noQuantity", "notDecreasing", "noItem",
   "noFlag", "macroNotFound"}
Ignored(rec) == rec.pc = "done" /\ rec.out \in IgnoreReasons

\* C29: a notification that is ignored without invoking (wrong user, not a
\* consumable, no quantity decrease, no item resolved, no flag, macro
\* unresolvable) never asks the suppressor and never registers a dedup
\* entry: the step in which a handler gives up leaves the dedup set and its
\* timers unchanged, every live entry belongs to a handler that invoked, and
\* every suppressed handler was suppressed by a handler that invoked.
C29_IgnoredRegistersNothing ==
  /\ [](\A k \in Hs :
          /\ Ignored(h[k]) => (~h[k].ran /\ h[k].ret = "none"
                               /\ h[k].callAt = Undefined)
          /\ h[k].ret = "false" =>
               \E j \in Hs \ {k} : /\ h[j].ran /\ KeyOf(j) = KeyOf(k)
                                   /\ h[j].callAt <= h[k].callAt
                                   /\ h[k].callAt < h[j].callAt + DedupWindow)
  /\ [](\A key \in recentlyExecuted : \E j \in Hs : h[j].ran /\ KeyOf(j) = key)
  /\ [][\A k \in 1..Len(h') :
          (Ignored(h'[k]) /\ (k > Len(h) \/ h'[k] # h[k]))
            => (recentlyExecuted' = recentlyExecuted /\ timers' = timers)]_vars

\* a notification was ignored for reporting no decrease, and one for the
\* same item that came less than the window later was invoked
C29_Witness ==
  \E j \in Hs, k \in Hs :
    /\ j < k
    /\ h[j].out = "notDecreasing" /\ h[j].item = "i1"
    /\ h[k].ran /\ h[k].item = "i1"
    /\ h[k].callAt < h[j].at + DedupWindow

\* C30: dedup entries of different keys are independent: a call of
\* shouldExecuteMacro returns false only because of a live entry registered
\* for the same item name and the same macro reference; a live entry for
\* any other pair of strings never makes it return false.
C30_OtherPairsNeverSuppress ==
  \A k \in Hs :
    h[k].ret = "false" =>
      \E j \in Hs \ {k} :
        /\ h[j].ret = "true"
        /\ h[j].name = h[k].name /\ h[j].macroUuid = h[k].macroUuid
        /\ h[j].callAt <= h[k].callAt
        /\ h[k].callAt < h[j].callAt + DedupWindow

\* the timers pending for a key
TimersOf(key) == {tm \in timers : tm.key = key}

\* C31: a key is in recentlyExecuted if and only if exactly one expiry timer
\* is pending for it (and no key ever has two); a key leaves the set only
\* when every registration of it is at least 500 ms old, so the timer of one
\* registration never removes the entry of a later one, and every
\* registration stays live for its full 500 ms (times are compared while the
\* clock is below MaxTime, where it stops counting).
C31_OneTimerPerLiveKey ==
  /\ [](\A key \in recentlyExecuted \cup {tm.key : tm \in timers} :
          /\ Cardinality(TimersOf(key)) <= 1
          /\ key \in recentlyExecuted <=> Cardinality(TimersOf(key)) = 1)
  /\ [][\A key \in recentlyExecuted :
          (key \notin recentlyExecuted' /\ now < MaxTime) =>
            \A k \in Hs : (h[k].ret = "true" /\ KeyOf(k) = key)
                            => h[k].callAt + DedupWindow <= now]_vars
  /\ [](\A k \in Hs :
          (h[k].ret = "true" /\ now < MaxTime /\ now < h[k].callAt + DedupWindow)
            => (KeyOf(k) \in recentlyExecuted
                /\ \A tm \in TimersOf(KeyOf(k)) :
                     tm.rem = h[k].callAt + DedupWindow - now))

\* a key registered a second time after its first entry ran out, rejected
\* calls in between or not, is still live after the first timer has fired
C31_Witness ==
  \E j \in Hs, k \in Hs :
    /\ h[j].ret = "true" /\ h[k].ret = "true" /\ KeyOf(j) = KeyOf(k)
    /\ h[k].callAt >= h[j].callAt + DedupWindow
    /\ now > h[k].callAt
    /\ KeyOf(k) \in recentlyExecuted
    /\ Cardinality(TimersOf(KeyOf(k))) = 1

\* handler k takes hold of a macro reference in this step
TakesReference(k) ==
  /\ k \in 1..Len(h')
  /\ h'[k].pc = "awaitMacro"
  /\ k > Len(h) \/ h[k].pc # "awaitMacro"

\* C32 (as stated): once the removal control has cleared an item's flag, no
\* notification on any path starts a macro invocation for that item while
\* the flag stays cleared, also not a post-delete whose snapshot is older
\* than the removal or a handler that was suspended at an await.
C32_NoInvocationWhileCleared ==
  [][\A k \in Hs : InvocationStarts(k) => flag[h[k].item] # NoRef]_vars

\* C32 (amended): while an item's flag is cleared no handler takes a macro
\* reference from it: a handler that reads the flag then ends without
\* invoking, and pre-delete stores no snapshot.  A handler invokes exactly
\* the reference it took earlier, so after a removal only handlers that
\* already hold the reference (suspended at their macro lookup, or a
\* post-delete served from a snapshot taken before the removal) still invoke
\* the macro that was attached.
C32_OnlyHeldReferencesInvoke ==
  [][/\ \A k \in 1..Len(h') :
          TakesReference(k) =>
            LET i == h'[k].item
            IN IF h'[k].path = "deleteItem"
               THEN /\ consumedItems[i] # NoSnap
                    /\ h'[k].macroUuid = consumedItems[i].macroUuid
                    /\ h'[k].macroUuid # NoRef
               ELSE h'[k].macroUuid = flag[i] /\ flag[i] # NoRef
     /\ \A i \in ItemIds :
          (consumedItems'[i] # consumedItems[i] /\ consumedItems'[i] # NoSnap)
            => (consumedItems'[i].macroUuid = flag[i] /\ flag[i] # NoRef)
     /\ \A k \in 1..Len(h') :
          (h'[k].out = "noFlag" /\ (k > Len(h) \/ h[k].out # "noFlag"))
            => (flag[h'[k].item] = NoRef /\ h'[k].pc = "done" /\ ~h'[k].ran)
     /\ \A k \in Hs :
          InvocationStarts(k) => (/\ h[k].pc = "awaitMacro"
                                  /\ h[k].macroUuid # NoRef
                                  /\ h'[k].ctx.macro = h[k].macroUuid)]_vars

\* the flag of i1 has been removed; a notification that came afterwards ended
\* for want of a flag, a post-delete served from the older snapshot invoked
C32_Witness ==
  /\ last.op = "remove" /\ flag["i1"] = NoRef
  /\ \E j \in Hs, k \in Hs :
       /\ h[j].out = "noFlag" /\ h[j].item = "i1"
       /\ h[k].path = "deleteItem" /\ h[k].item = "i1" /\ h[k].ran
       /\ h[k].ctx.macro = M1

====
